---- MODULE Spec2Model ----
(***************************************************************************)
(* Model of the Deploy and Upgrade workflows of src/main.rs                *)
(* (main_with_result and main).  One process invocation is one "run"; the  *)
(* on-chain program, the staging buffers and the artifact tree outlive a   *)
(* run, everything else is per run.  Every `?` of the source is a branch   *)
(* to "ret_err" (main_with_result returns Err, its locals are dropped),    *)
(* every std::process::exit is a branch to the exit of that line.          *)
(***************************************************************************)
EXTENDS Integers, Sequences, FiniteSets, TLC

\* ------------------------------------------------------------------ bounds
MaxRuns == 2
MaxVersion == 2
MaxKeys == 2

Versions == 1..MaxVersion
BufferKeys == 1..MaxKeys

\* ------------------------------------------------------- names of the source
Deployer == "deployer_path"
UpgradeAuthorityKeypair == "UPGRADE_AUTHORITY_KEYPAIR"
NoSigner == "none"

ExitPcs == {"exit118", "exit207", "exit307", "exit309"}

ArtifactFiles == <<"bin", "id", "idl">>

FilePrefix(n) == {ArtifactFiles[i] : i \in 1..n}

AllArtifacts == FilePrefix(Len(ArtifactFiles))

VARIABLES
    pc,          \* position in main_with_result / main, "shell" before the first run
    run,         \* number of the current run (0 before the first)
    sub,         \* opts.command: "Deploy" or "Upgrade"
    version,     \* workspace.deploy_version
    envSet,      \* UPGRADE_AUTHORITY_KEYPAIR is set in the environment
    anchor,      \* workspace.has_anchor()
    bufferKey,   \* buffer_key of this run, 0 before it is generated
    tmpFile,     \* the NamedTempFile buffer_file exists on disk
    log,         \* the steps this run invoked, in order
    error,       \* the Err main_with_result returned, "none" if none
    chain,       \* the program account on the network
    buffers,     \* authority of each staging buffer on the network
    artifacts,   \* files present under <artifact-root>/<program>/<version>
    idl,         \* the program's interface description on the network
    start        \* the world as it was when this run started, and what the
                 \* earlier runs did: the versions whose run returned Ok,
                 \* whether a Deploy failed after deploying (partial), and
                 \* whether it failed at set-upgrade-authority (stuck)

vars == <<pc, run, sub, version, envSet, anchor, bufferKey, tmpFile, log,
          error, chain, buffers, artifacts, idl, start>>

runVars == <<run, sub, version, envSet, anchor, start>>

world == <<chain, buffers, artifacts, idl>>

\* ---------------------------------------------------- external collaborators
NoProgram == [exists |-> FALSE, auth |-> "none", code |-> 0]

\* solana program show: Ok(account exists), or Err when it cannot be invoked
ShowProgramResults(c) == {IF c.exists THEN "true" ELSE "false", "err"}

\* solana program deploy <bin> --keypair <deployer>
ProgramDeploy(c, r) == [exists |-> TRUE, auth |-> "deployer", code |-> r]

\* solana program set-upgrade-authority --new-upgrade-authority <authority>
SetUpgradeAuthority(c) == [c EXCEPT !.auth = "upgrade_authority"]

\* solana program write-buffer --buffer <keypair file>
WriteBuffer(b, k) == [b EXCEPT ![k] = "deployer"]

\* solana program set-buffer-authority <buffer> --new-buffer-authority <authority>
SetBufferAuthority(b, k) == [b EXCEPT ![k] = "upgrade_authority"]

\* solana program deploy --buffer <buffer> --program-id <id>: the switch
DeployFromBuffer(c, r) == [c EXCEPT !.code = r]

\* the buffer account is consumed by the switch
CloseBuffer(b, k) == [b EXCEPT ![k] = "none"]

NoIdl == [exists |-> FALSE, code |-> 0, auth |-> "none", staged |-> 0]

\* an IDL published before the first run
PublishedIdl == [exists |-> TRUE, code |-> 0, auth |-> "upgrade_authority", staged |-> 0]

\* anchor idl init --filepath <idl>: publishes the IDL, owned by the wallet
IdlInit(d, r) == [d EXCEPT !.exists = TRUE, !.code = r, !.auth = "deployer"]

\* anchor idl set-authority --new-authority <authority>
IdlSetAuthority(d) == [d EXCEPT !.auth = "upgrade_authority"]

\* anchor idl write-buffer --filepath <idl>: stages an IDL, publishes nothing
IdlWriteBuffer(d, r) == [d EXCEPT !.staged = r]

\* ArtifactPaths.exist()
ArtifactPathsExist(a, v) == a[v] = AllArtifacts

\* copy_artifacts: all files on success, a prefix of them left behind on failure
CopyArtifactsResults(a, v, ok) ==
    IF ok THEN {[a EXCEPT ![v] = AllArtifacts]}
    ELSE {[a EXCEPT ![v] = a[v] \cup FilePrefix(n)] : n \in 0..(Len(ArtifactFiles) - 1)}


\* a `?` left out: the Err is dropped and the sequence goes on
Try_Ignored(ok, next) == next

\* ------------------------------------------------------ branches of main.rs
\* `?` on a Result: continue on Ok, return the Err from main_with_result
Try(ok, next) == IF ok THEN next ELSE "ret_err"


\* the credential is looked up but its absence is not an error
UpgradeEnvGuard_Unchecked(set) == "u_init"

\* env::var("UPGRADE_AUTHORITY_KEYPAIR").map_err(..)?
UpgradeEnvGuard(set) == Try(set, "u_init")


\* the duplicate-version guard left out
UpgradeArtifactGuard_Unchecked(exist) == "u_probe"

\* if workspace.artifact_paths.exist() { return Err(..) }
UpgradeArtifactGuard(exist) == IF exist THEN "ret_err" ELSE "u_probe"


\* the notice is printed but the process does not exit
UpgradeAfterProbe_NoExit(res) == IF res = "err" THEN "ret_err" ELSE "u_keypair"

\* if !workspace.show_program()? { ..; std::process::exit(1) }
UpgradeAfterProbe(res) ==
    IF res = "err" THEN "ret_err"
    ELSE IF res = "false" THEN "exit207" ELSE "u_keypair"


\* the notice is printed but the process does not exit
DeployAfterProbe_NoExit(res) == IF res = "err" THEN "ret_err" ELSE "d_deploy"


\* an existing program is taken on from the authority hand-over
DeployAfterProbe_Repair(res) ==
    IF res = "err" THEN "ret_err"
    ELSE IF res = "true" THEN "d_setauth" ELSE "d_deploy"

\* if workspace.show_program()? { ..; std::process::exit(0) }
DeployAfterProbe(res) ==
    IF res = "err" THEN "ret_err"
    ELSE IF res = "true" THEN "exit118" ELSE "d_deploy"


\* the IDL steps run whether or not the project has Anchor
DeployAfterSecondProbe_IdlAlways(res, hasAnchor) ==
    IF res = "err" THEN "ret_err" ELSE "d_idl_init"


\* a false second probe treated as a failed deployment
DeployAfterSecondProbe_FalseFails(res, hasAnchor) ==
    IF res \in {"err", "false"} THEN "ret_err"
    ELSE IF hasAnchor THEN "d_idl_init" ELSE "d_copy"

\* workspace.show_program()?; if workspace.has_anchor() { .. }
DeployAfterSecondProbe(res, hasAnchor) ==
    IF res = "err" THEN "ret_err"
    ELSE IF hasAnchor THEN "d_idl_init" ELSE "d_copy"


\* the IDL upload left out
UpgradeAfterSecondProbe_NoIdl(res, hasAnchor) ==
    IF res = "err" THEN "ret_err" ELSE "u_copy"

UpgradeAfterSecondProbe(res, hasAnchor) ==
    IF res = "err" THEN "ret_err"
    ELSE IF hasAnchor THEN "u_idl" ELSE "u_copy"


\* the file is persisted (or the handle leaked) instead of removed on drop
ScopeEnd_Leaked(next, file) == file

\* buffer_file is a local of the Upgrade arm: dropped (and the file removed)
\* when main_with_result returns, not when the process exits inside the arm
ScopeEnd(next, file) == IF next \in {"ret_ok", "ret_err"} THEN FALSE ELSE file

\* process exit status of each exit
ExitStatus(p) == IF p \in {"exit118", "exit309"} THEN 0 ELSE 1

Step(cmd, signer, buf, res) == [cmd |-> cmd, signer |-> signer, buf |-> buf, res |-> res]

\* command::exec: Ok(()) when the child exits with status 0, Err otherwise
CommandExec(status) == status = 0

ExitCodes == {0, 1}

Res(ok) == IF ok THEN "ok" ELSE "fail"

\* the Err value carried out of main_with_result by a failing step
Raise(next, kind) == IF next = "ret_err" THEN kind ELSE "none"

\* ------------------------------------------------------------------- state
Init ==
    /\ pc = "shell"
    /\ run = 0
    /\ sub = "none"
    /\ version = 0
    /\ envSet = FALSE
    /\ anchor = FALSE
    /\ bufferKey = 0
    /\ tmpFile = FALSE
    /\ log = <<>>
    /\ error = "none"
    /\ chain \in {NoProgram}
                 \cup {[exists |-> TRUE, auth |-> a, code |-> 0] :
                           a \in {"deployer", "upgrade_authority"}}
    /\ buffers = [k \in BufferKeys |-> "none"]
    /\ artifacts \in [Versions -> {{}, AllArtifacts}]
    /\ idl \in IF chain.exists THEN {NoIdl, PublishedIdl} ELSE {NoIdl}
    /\ start = [chain |-> chain, buffers |-> buffers, artifacts |-> artifacts,
                idl |-> idl, done |-> {}, partial |-> FALSE, stuck |-> FALSE]

\* the run that just exited was a Deploy whose deploy command succeeded and
\* which then returned an Err
DeployedThenFailed ==
    /\ sub = "Deploy" /\ pc = "exit307"
    /\ \E i \in DOMAIN log : log[i] = Step("deploy", Deployer, 0, "ok")

\* ... and the Err was that of set-upgrade-authority
AuthorityNotHandedOver ==
    /\ DeployedThenFailed
    /\ \E i \in DOMAIN log : log[i] = Step("set-authority", Deployer, 0, "fail")

\* Opts::parse() and the match on opts.command, for a new process
Invoke ==
    /\ pc \in {"shell"} \cup ExitPcs
    /\ run < MaxRuns
    /\ run' = run + 1
    /\ sub' \in {"Deploy", "Upgrade"}
    /\ version' \in Versions
    /\ envSet' \in BOOLEAN
    /\ anchor' \in BOOLEAN
    /\ pc' = IF sub' = "Deploy" THEN "d_init" ELSE "u_env"
    /\ bufferKey' = 0
    /\ log' = <<>>
    /\ error' = "none"
    /\ start' = [chain |-> chain, buffers |-> buffers, artifacts |-> artifacts,
                 idl |-> idl,
                 done |-> start.done \cup (IF pc = "exit309" THEN {version} ELSE {}),
                 partial |-> start.partial \/ DeployedThenFailed,
                 stuck |-> start.stuck \/ AuthorityNotHandedOver]
    /\ UNCHANGED <<tmpFile, world>>

\* --------------------------------------------------------------- Deploy arm
\* workspace::init(program, version, network)?
DeployInit ==
    /\ pc = "d_init"
    /\ \E ok \in BOOLEAN : pc' = Try(ok, "d_probe")
    /\ error' = Raise(pc', "WorkspaceInit")
    /\ UNCHANGED <<runVars, bufferKey, tmpFile, log, world>>

DeployProbe ==
    /\ pc = "d_probe"
    /\ \E res \in ShowProgramResults(chain) :
        /\ log' = Append(log, Step("probe", NoSigner, 0, res))
        /\ pc' = DeployAfterProbe(res)
    /\ error' = Raise(pc', "Probe")
    /\ UNCHANGED <<runVars, bufferKey, tmpFile, world>>

DeployProgram ==
    /\ pc = "d_deploy"
    /\ \E status \in ExitCodes :
        LET ok == CommandExec(status) IN
        /\ log' = Append(log, Step("deploy", Deployer, 0, Res(ok)))
        /\ chain' = IF ok THEN ProgramDeploy(chain, run) ELSE chain
        /\ pc' = Try(ok, "d_setauth")
    /\ error' = Raise(pc', "Command")
    /\ UNCHANGED <<runVars, bufferKey, tmpFile, buffers, artifacts, idl>>


\* set-upgrade-authority retried until it succeeds
DeploySetAuthority_Retry ==
    /\ pc = "d_setauth"
    /\ \E status \in ExitCodes :
        LET ok == CommandExec(status) IN
        /\ log' = Append(log, Step("set-authority", Deployer, 0, Res(ok)))
        /\ chain' = IF ok THEN SetUpgradeAuthority(chain) ELSE chain
        /\ pc' = IF ok THEN "d_probe2" ELSE "d_setauth"
    /\ error' = "none"
    /\ UNCHANGED <<runVars, bufferKey, tmpFile, buffers, artifacts, idl>>

DeploySetAuthority ==
    /\ pc = "d_setauth"
    /\ \E status \in ExitCodes :
        LET ok == CommandExec(status) IN
        /\ log' = Append(log, Step("set-authority", Deployer, 0, Res(ok)))
        /\ chain' = IF ok THEN SetUpgradeAuthority(chain) ELSE chain
        /\ pc' = Try(ok, "d_probe2")
    /\ error' = Raise(pc', "Command")
    /\ UNCHANGED <<runVars, bufferKey, tmpFile, buffers, artifacts, idl>>

DeploySecondProbe ==
    /\ pc = "d_probe2"
    /\ \E res \in ShowProgramResults(chain) :
        /\ log' = Append(log, Step("probe", NoSigner, 0, res))
        /\ pc' = DeployAfterSecondProbe(res, anchor)
    /\ error' = Raise(pc', "Probe")
    /\ UNCHANGED <<runVars, bufferKey, tmpFile, world>>


\* the result of idl init not checked
DeployIdlInit_Unchecked ==
    /\ pc = "d_idl_init"
    /\ \E status \in ExitCodes :
        LET ok == CommandExec(status) IN
        /\ log' = Append(log, Step("idl-init", Deployer, 0, Res(ok)))
        /\ idl' = IF ok THEN IdlInit(idl, run) ELSE idl
        /\ pc' = "d_idl_setauth"
    /\ error' = "none"
    /\ UNCHANGED <<runVars, bufferKey, tmpFile, chain, buffers, artifacts>>

DeployIdlInit ==
    /\ pc = "d_idl_init"
    /\ \E status \in ExitCodes :
        LET ok == CommandExec(status) IN
        /\ log' = Append(log, Step("idl-init", Deployer, 0, Res(ok)))
        /\ idl' = IF ok THEN IdlInit(idl, run) ELSE idl
        /\ pc' = Try(ok, "d_idl_setauth")
    /\ error' = Raise(pc', "Command")
    /\ UNCHANGED <<runVars, bufferKey, tmpFile, chain, buffers, artifacts>>


\* the result of idl set-authority not checked
DeployIdlSetAuthority_Unchecked ==
    /\ pc = "d_idl_setauth"
    /\ \E status \in ExitCodes :
        LET ok == CommandExec(status) IN
        /\ log' = Append(log, Step("idl-set-authority", Deployer, 0, Res(ok)))
        /\ idl' = IF ok THEN IdlSetAuthority(idl) ELSE idl
        /\ pc' = "d_copy"
    /\ error' = "none"
    /\ UNCHANGED <<runVars, bufferKey, tmpFile, chain, buffers, artifacts>>

DeployIdlSetAuthority ==
    /\ pc = "d_idl_setauth"
    /\ \E status \in ExitCodes :
        LET ok == CommandExec(status) IN
        /\ log' = Append(log, Step("idl-set-authority", Deployer, 0, Res(ok)))
        /\ idl' = IF ok THEN IdlSetAuthority(idl) ELSE idl
        /\ pc' = Try(ok, "d_copy")
    /\ error' = Raise(pc', "Command")
    /\ UNCHANGED <<runVars, bufferKey, tmpFile, chain, buffers, artifacts>>

\* workspace.copy_artifacts()?; Ok(())
DeployCopyArtifacts ==
    /\ pc = "d_copy"
    /\ \E ok \in BOOLEAN :
        /\ log' = Append(log, Step("copy", NoSigner, 0, Res(ok)))
        /\ artifacts' \in CopyArtifactsResults(artifacts, version, ok)
        /\ pc' = Try(ok, "ret_ok")
    /\ error' = Raise(pc', "Copy")
    /\ UNCHANGED <<runVars, bufferKey, tmpFile, chain, buffers, idl>>

\* -------------------------------------------------------------- Upgrade arm
UpgradeEnv ==
    /\ pc = "u_env"
    /\ pc' = UpgradeEnvGuard(envSet)
    /\ error' = Raise(pc', "MissingCredential")
    /\ UNCHANGED <<runVars, bufferKey, tmpFile, log, world>>

\* workspace::init(program, version, network)?
UpgradeInit ==
    /\ pc = "u_init"
    /\ \E ok \in BOOLEAN : pc' = Try(ok, "u_artifacts")
    /\ error' = Raise(pc', "WorkspaceInit")
    /\ UNCHANGED <<runVars, bufferKey, tmpFile, log, world>>

UpgradeArtifactCheck ==
    /\ pc = "u_artifacts"
    /\ pc' = UpgradeArtifactGuard(ArtifactPathsExist(artifacts, version))
    /\ error' = Raise(pc', "DuplicateVersion")
    /\ UNCHANGED <<runVars, bufferKey, tmpFile, log, world>>

UpgradeProbe ==
    /\ pc = "u_probe"
    /\ \E res \in ShowProgramResults(chain) :
        /\ log' = Append(log, Step("probe", NoSigner, 0, res))
        /\ pc' = UpgradeAfterProbe(res)
    /\ error' = Raise(pc', "Probe")
    /\ UNCHANGED <<runVars, bufferKey, tmpFile, world>>

\* Keypair::generate(&mut OsRng), NamedTempFile::new()?, write_keypair(..)?
UpgradeBufferKeypair ==
    /\ pc = "u_keypair"
    /\ \E k \in BufferKeys, ok \in BOOLEAN :
        /\ bufferKey' = k
        /\ pc' = Try(ok, "u_write")
    /\ tmpFile' = ScopeEnd(pc', TRUE)
    /\ error' = Raise(pc', "TempFile")
    /\ UNCHANGED <<runVars, log, world>>


\* the result of write-buffer not checked
UpgradeWriteBuffer_Unchecked ==
    /\ pc = "u_write"
    /\ \E status \in ExitCodes :
        LET ok == CommandExec(status) IN
        /\ log' = Append(log, Step("write-buffer", Deployer, bufferKey, Res(ok)))
        /\ buffers' = IF ok THEN WriteBuffer(buffers, bufferKey) ELSE buffers
        /\ pc' = "u_setbufauth"
    /\ tmpFile' = tmpFile
    /\ error' = "none"
    /\ UNCHANGED <<runVars, bufferKey, chain, artifacts, idl>>

UpgradeWriteBuffer ==
    /\ pc = "u_write"
    /\ \E status \in ExitCodes :
        LET ok == CommandExec(status) IN
        /\ log' = Append(log, Step("write-buffer", Deployer, bufferKey, Res(ok)))
        /\ buffers' = IF ok THEN WriteBuffer(buffers, bufferKey) ELSE buffers
        /\ pc' = Try(ok, "u_setbufauth")
    /\ tmpFile' = ScopeEnd(pc', tmpFile)
    /\ error' = Raise(pc', "Command")
    /\ UNCHANGED <<runVars, bufferKey, chain, artifacts, idl>>


\* a second keypair generated for the authority hand-over
UpgradeSetBufferAuthority_FreshKey ==
    /\ pc = "u_setbufauth"
    /\ \E status \in ExitCodes, k \in BufferKeys :
        LET ok == CommandExec(status) IN
        /\ bufferKey' = k
        /\ log' = Append(log, Step("set-buffer-authority", Deployer, k, Res(ok)))
        /\ buffers' = IF ok THEN SetBufferAuthority(buffers, k) ELSE buffers
        /\ pc' = Try(ok, "u_switch")
    /\ tmpFile' = ScopeEnd(pc', tmpFile)
    /\ error' = Raise(pc', "Command")
    /\ UNCHANGED <<runVars, chain, artifacts, idl>>

UpgradeSetBufferAuthority ==
    /\ pc = "u_setbufauth"
    /\ \E status \in ExitCodes :
        LET ok == CommandExec(status) IN
        /\ log' = Append(log, Step("set-buffer-authority", Deployer, bufferKey, Res(ok)))
        /\ buffers' = IF ok THEN SetBufferAuthority(buffers, bufferKey) ELSE buffers
        /\ pc' = Try(ok, "u_switch")
    /\ tmpFile' = ScopeEnd(pc', tmpFile)
    /\ error' = Raise(pc', "Command")
    /\ UNCHANGED <<runVars, bufferKey, chain, artifacts, idl>>


\* the switch signed with the deployer keypair
UpgradeSwitch_DeployerSigned ==
    /\ pc = "u_switch"
    /\ \E status \in ExitCodes :
        LET ok == CommandExec(status) IN
        /\ log' = Append(log, Step("deploy-from-buffer", Deployer, bufferKey, Res(ok)))
        /\ chain' = IF ok THEN DeployFromBuffer(chain, run) ELSE chain
        /\ buffers' = IF ok THEN CloseBuffer(buffers, bufferKey) ELSE buffers
        /\ pc' = Try(ok, "u_probe2")
    /\ tmpFile' = ScopeEnd(pc', tmpFile)
    /\ error' = Raise(pc', "Command")
    /\ UNCHANGED <<runVars, bufferKey, artifacts, idl>>

UpgradeSwitch ==
    /\ pc = "u_switch"
    /\ \E status \in ExitCodes :
        LET ok == CommandExec(status) IN
        /\ log' = Append(log, Step("deploy-from-buffer", UpgradeAuthorityKeypair,
                                   bufferKey, Res(ok)))
        /\ chain' = IF ok THEN DeployFromBuffer(chain, run) ELSE chain
        /\ buffers' = IF ok THEN CloseBuffer(buffers, bufferKey) ELSE buffers
        /\ pc' = Try(ok, "u_probe2")
    /\ tmpFile' = ScopeEnd(pc', tmpFile)
    /\ error' = Raise(pc', "Command")
    /\ UNCHANGED <<runVars, bufferKey, artifacts, idl>>

UpgradeSecondProbe ==
    /\ pc = "u_probe2"
    /\ \E res \in ShowProgramResults(chain) :
        /\ log' = Append(log, Step("probe", NoSigner, 0, res))
        /\ pc' = UpgradeAfterSecondProbe(res, anchor)
    /\ tmpFile' = ScopeEnd(pc', tmpFile)
    /\ error' = Raise(pc', "Probe")
    /\ UNCHANGED <<runVars, bufferKey, world>>


\* the staged IDL finalized with `anchor idl set-buffer` right away
UpgradeIdlWriteBuffer_Finalized ==
    /\ pc = "u_idl"
    /\ \E status \in ExitCodes :
        LET ok == CommandExec(status) IN
        /\ log' = log \o <<Step("idl-write-buffer", Deployer, 0, Res(ok))>>
                      \o (IF ok THEN <<Step("idl-set-buffer", Deployer, 0, "ok")>> ELSE <<>>)
        /\ idl' = IF ok THEN [idl EXCEPT !.exists = TRUE, !.code = run] ELSE idl
        /\ pc' = Try(ok, "u_copy")
    /\ tmpFile' = ScopeEnd(pc', tmpFile)
    /\ error' = Raise(pc', "Command")
    /\ UNCHANGED <<runVars, bufferKey, chain, buffers, artifacts>>

UpgradeIdlWriteBuffer ==
    /\ pc = "u_idl"
    /\ \E status \in ExitCodes :
        LET ok == CommandExec(status) IN
        /\ log' = Append(log, Step("idl-write-buffer", Deployer, 0, Res(ok)))
        /\ idl' = IF ok THEN IdlWriteBuffer(idl, run) ELSE idl
        /\ pc' = Try(ok, "u_copy")
    /\ tmpFile' = ScopeEnd(pc', tmpFile)
    /\ error' = Raise(pc', "Command")
    /\ UNCHANGED <<runVars, bufferKey, chain, buffers, artifacts>>


\* the call of copy_artifacts left out of the Upgrade arm
UpgradeCopyArtifacts_Omitted ==
    /\ pc = "u_copy"
    /\ pc' = "ret_ok"
    /\ tmpFile' = ScopeEnd(pc', tmpFile)
    /\ error' = "none"
    /\ UNCHANGED <<runVars, bufferKey, log, world>>

\* workspace.copy_artifacts()?; Ok(())
UpgradeCopyArtifacts ==
    /\ pc = "u_copy"
    /\ \E ok \in BOOLEAN :
        /\ log' = Append(log, Step("copy", NoSigner, 0, Res(ok)))
        /\ artifacts' \in CopyArtifactsResults(artifacts, version, ok)
        /\ pc' = Try(ok, "ret_ok")
    /\ tmpFile' = ScopeEnd(pc', tmpFile)
    /\ error' = Raise(pc', "Copy")
    /\ UNCHANGED <<runVars, bufferKey, chain, buffers, idl>>


\* the Err of main_with_result discarded: main returns normally
MainErr_Swallowed ==
    /\ pc = "ret_err"
    /\ pc' = "exit309"
    /\ UNCHANGED <<runVars, bufferKey, tmpFile, log, error, world>>

\* -------------------------------------------------------------------- main
\* if let Err(err) = main_with_result() { println!(..); std::process::exit(1) }
MainErr ==
    /\ pc = "ret_err"
    /\ pc' = "exit307"
    /\ UNCHANGED <<runVars, bufferKey, tmpFile, log, error, world>>

\* main_with_result() returned Ok(()): main returns
MainOk ==
    /\ pc = "ret_ok"
    /\ pc' = "exit309"
    /\ UNCHANGED <<runVars, bufferKey, tmpFile, log, error, world>>

Next ==
    \/ Invoke
    \/ DeployInit
    \/ DeployProbe
    \/ DeployProgram
    \/ DeploySetAuthority
    \/ DeploySecondProbe
    \/ DeployIdlInit
    \/ DeployIdlSetAuthority
    \/ DeployCopyArtifacts
    \/ UpgradeEnv
    \/ UpgradeInit
    \/ UpgradeArtifactCheck
    \/ UpgradeProbe
    \/ UpgradeBufferKeypair
    \/ UpgradeWriteBuffer
    \/ UpgradeSetBufferAuthority
    \/ UpgradeSwitch
    \/ UpgradeSecondProbe
    \/ UpgradeIdlWriteBuffer
    \/ UpgradeCopyArtifacts
    \/ MainErr
    \/ MainOk

Spec == Init /\ [][Next]_vars

\* ------------------------------------------------------ reading the run log
Exited == pc \in ExitPcs

Failed == pc \in {"exit207", "exit307"}

Done == pc = "exit309"

AlreadyDeployed == pc = "exit118"

Invoked(cmd) == \E i \in DOMAIN log : log[i].cmd = cmd

Succeeded(cmd) == \E i \in DOMAIN log : log[i].cmd = cmd /\ log[i].res = "ok"

CmdsOf(l) == [i \in DOMAIN l |-> l[i].cmd]

IsPrefix(l, m) == Len(l) <= Len(m) /\ \A i \in DOMAIN l : l[i] = m[i]

\* the commands run through command::exec (the probe and the copy are not)
ExecCommands ==
    {"deploy", "set-authority", "idl-init", "idl-set-authority", "write-buffer",
     "set-buffer-authority", "deploy-from-buffer", "idl-write-buffer"}

WorldUntouched == chain = start.chain /\ artifacts = start.artifacts /\ idl = start.idl

\* C1: an Upgrade run without UPGRADE_AUTHORITY_KEYPAIR invokes no step at
\* all (no probe, no command, no copy, no workspace resolution, no temporary
\* file), fails with the missing-credential error and exits non-zero,
\* whatever the artifacts and the on-chain program are.
C1_MissingCredential ==
    (sub = "Upgrade" /\ ~envSet) =>
        /\ log = <<>>
        /\ pc \in {"u_env", "ret_err", "exit307"}
        /\ pc # "u_env" => error = "MissingCredential"
        /\ Exited => ExitStatus(pc) # 0
        /\ bufferKey = 0 /\ ~tmpFile
        /\ WorldUntouched /\ buffers = start.buffers

C1_Witness ==
    /\ sub = "Upgrade" /\ ~envSet /\ pc = "exit307"
    /\ chain.exists /\ ~ArtifactPathsExist(artifacts, version)

\* C2: an Upgrade run with the credential set whose ArtifactPaths exist at
\* start invokes no external command and creates no temporary credential
\* file; once the workspace is resolved it fails with the duplicate-version
\* error, and it exits non-zero.
C2_DuplicateVersion ==
    (sub = "Upgrade" /\ envSet /\ ArtifactPathsExist(start.artifacts, version)) =>
        /\ log = <<>>
        /\ bufferKey = 0 /\ ~tmpFile
        /\ pc \in {"u_env", "u_init", "u_artifacts", "ret_err", "exit307"}
        /\ pc \in {"ret_err", "exit307"} => error \in {"WorkspaceInit", "DuplicateVersion"}
        /\ Exited => ExitStatus(pc) # 0
        /\ WorldUntouched /\ buffers = start.buffers

C2_Witness ==
    /\ sub = "Upgrade" /\ envSet /\ ArtifactPathsExist(start.artifacts, version)
    /\ pc = "exit307" /\ error = "DuplicateVersion" /\ chain.exists

\* C3: an Upgrade run whose first probe reports that the program does not
\* exist exits non-zero right there: the probe is its only step, so neither
\* write-buffer nor any later command nor the artifact copy is invoked.
C3_ProgramNotDeployed ==
    (sub = "Upgrade" /\ log # <<>> /\ log[1].res = "false") =>
        /\ Len(log) = 1
        /\ pc = "exit207" /\ ExitStatus(pc) # 0
        /\ bufferKey = 0 /\ ~tmpFile
        /\ WorldUntouched /\ buffers = start.buffers

C3_Witness ==
    /\ sub = "Upgrade" /\ envSet /\ ~ArtifactPathsExist(start.artifacts, version)
    /\ log = <<Step("probe", NoSigner, 0, "false")>> /\ pc = "exit207"

\* C4: a Deploy run whose first probe reports that the program exists invokes
\* nothing else (no deploy, set-authority, IDL command or copy) and ends in
\* AlreadyDeployed with exit status 0.
C4_AlreadyDeployed ==
    (sub = "Deploy" /\ log # <<>> /\ log[1].res = "true") =>
        /\ Len(log) = 1
        /\ AlreadyDeployed /\ ExitStatus(pc) = 0
        /\ WorldUntouched /\ buffers = start.buffers

C4_Witness ==
    /\ sub = "Deploy" /\ log = <<Step("probe", NoSigner, 0, "true")>>
    /\ pc = "exit118" /\ chain.exists

\* C5: a command that returned a non-zero exit status is the last step of
\* its run (no further command, no copy, no retry) and the run is on its
\* way to, or at, the exit with status 1.
C5_FailFast ==
    \A i \in DOMAIN log :
        (log[i].cmd \in ExecCommands /\ log[i].res = "fail") =>
            /\ i = Len(log)
            /\ pc \in {"ret_err", "exit307"}
            /\ error = "Command"
            /\ Failed => ExitStatus(pc) # 0

C5_Witness ==
    /\ pc = "exit307" /\ Len(log) = 3
    /\ log[3] = Step("set-buffer-authority", Deployer, bufferKey, "fail")

\* C6: deploy-from-buffer is invoked only as the fourth step of an Upgrade
\* run whose preconditions passed, after the probe reported the program and
\* after write-buffer and set-buffer-authority both succeeded on this run's
\* buffer; and as long as no deploy-from-buffer has succeeded in an Upgrade
\* run, the on-chain program is what it was when the run started.
C6_SafeBeforeSwitch ==
    /\ \A i \in DOMAIN log :
        log[i].cmd = "deploy-from-buffer" =>
            /\ sub = "Upgrade" /\ envSet
            /\ ~ArtifactPathsExist(start.artifacts, version)
            /\ i = 4
            /\ log[1] = Step("probe", NoSigner, 0, "true")
            /\ log[2] = Step("write-buffer", Deployer, bufferKey, "ok")
            /\ log[3] = Step("set-buffer-authority", Deployer, bufferKey, "ok")
    /\ (sub = "Upgrade" /\ ~Succeeded("deploy-from-buffer")) => chain = start.chain

C6_Witness ==
    /\ sub = "Upgrade" /\ Succeeded("deploy-from-buffer")
    /\ chain.code = run /\ start.chain.code # run

\* the steps of an Upgrade run in which nothing fails
UpgradeHappyLog(hasAnchor, k) ==
    <<Step("probe", NoSigner, 0, "true"),
      Step("write-buffer", Deployer, k, "ok"),
      Step("set-buffer-authority", Deployer, k, "ok"),
      Step("deploy-from-buffer", UpgradeAuthorityKeypair, k, "ok"),
      Step("probe", NoSigner, 0, "true")>>
    \o (IF hasAnchor THEN <<Step("idl-write-buffer", Deployer, 0, "ok")>> ELSE <<>>)
    \o <<Step("copy", NoSigner, 0, "ok")>>

UpgradeHappy ==
    /\ sub = "Upgrade" /\ envSet
    /\ ~ArtifactPathsExist(start.artifacts, version)
    /\ start.chain.exists
    /\ error = "none"

\* C7 as stated: on the Upgrade happy path the steps of the run are exactly
\* probe, write-buffer, set-buffer-authority, deploy-from-buffer, copy.
C7_AsStated ==
    (UpgradeHappy /\ Done) =>
        CmdsOf(log) = <<"probe", "write-buffer", "set-buffer-authority",
                        "deploy-from-buffer", "copy">>

\* C7 (amended): on the Upgrade happy path the steps of the run are, in
\* order, probe (true), write-buffer, set-buffer-authority, deploy-from-buffer
\* signed with the upgrade-authority credential, a second probe, IDL
\* write-buffer exactly when the interface-description capability is
\* present, copy artifacts; the run exits 0.
C7_UpgradeHappyPath ==
    UpgradeHappy =>
        /\ IsPrefix(log, UpgradeHappyLog(anchor, bufferKey))
        /\ Exited => /\ Done /\ ExitStatus(pc) = 0
                     /\ log = UpgradeHappyLog(anchor, bufferKey)

C7_Witness ==
    /\ UpgradeHappy /\ Done /\ anchor
    /\ log = UpgradeHappyLog(TRUE, bufferKey)

\* the steps of a Deploy run in which nothing fails
DeployHappyLog(hasAnchor) ==
    <<Step("probe", NoSigner, 0, "false"),
      Step("deploy", Deployer, 0, "ok"),
      Step("set-authority", Deployer, 0, "ok"),
      Step("probe", NoSigner, 0, "true")>>
    \o (IF hasAnchor THEN <<Step("idl-init", Deployer, 0, "ok"),
                            Step("idl-set-authority", Deployer, 0, "ok")>>
        ELSE <<>>)
    \o <<Step("copy", NoSigner, 0, "ok")>>

DeployHappy == sub = "Deploy" /\ ~start.chain.exists /\ error = "none"

\* C8 as stated: on the Deploy happy path the steps of the run are exactly
\* probe, deploy, set-authority, the two IDL steps iff the capability is
\* present, copy.
C8_AsStated ==
    (DeployHappy /\ Done) =>
        CmdsOf(log) = <<"probe", "deploy", "set-authority">>
                      \o (IF anchor THEN <<"idl-init", "idl-set-authority">> ELSE <<>>)
                      \o <<"copy">>

\* C8 (amended): on the Deploy happy path the steps of the run are, in order,
\* probe (false), deploy, set-authority, a second probe, then IDL init
\* followed by IDL set-authority exactly when the interface-description
\* capability is present, then copy artifacts; the run exits 0.
C8_DeployHappyPath ==
    DeployHappy =>
        /\ IsPrefix(log, DeployHappyLog(anchor))
        /\ Exited => /\ Done /\ ExitStatus(pc) = 0
                     /\ log = DeployHappyLog(anchor)

C8_Witness ==
    /\ DeployHappy /\ Done /\ anchor
    /\ log = DeployHappyLog(TRUE)

\* a precondition of the run's workflow did not hold when it started
PreconditionFailed ==
    sub = "Upgrade" /\ (\/ ~envSet
                        \/ ArtifactPathsExist(start.artifacts, version)
                        \/ ~start.chain.exists)

StepFailed == \E i \in DOMAIN log : log[i].res \in {"fail", "err"}

\* C9: a process that exited 0 either returned Ok from main_with_result
\* after every step, the artifact copy last, succeeded, or is a Deploy run
\* that left at the first probe reporting the program; a run with a failed
\* step, a returned error or a failed precondition exits non-zero.
C9_NoPartialSuccess ==
    Exited =>
        /\ ExitStatus(pc) = 0 =>
            \/ /\ Done /\ error = "none" /\ ~StepFailed
               /\ log # <<>> /\ log[Len(log)] = Step("copy", NoSigner, 0, "ok")
               /\ ArtifactPathsExist(artifacts, version)
               /\ log = IF sub = "Deploy" THEN DeployHappyLog(anchor)
                        ELSE UpgradeHappyLog(anchor, bufferKey)
            \/ /\ AlreadyDeployed /\ sub = "Deploy"
               /\ log = <<Step("probe", NoSigner, 0, "true")>>
        /\ (StepFailed \/ error # "none" \/ PreconditionFailed) => ExitStatus(pc) # 0

C9_Witness ==
    /\ Exited /\ ExitStatus(pc) # 0 /\ Succeeded("deploy-from-buffer")
    /\ log[Len(log)] = Step("copy", NoSigner, 0, "fail")

\* C10: a Deploy run in which deploy succeeded and set-authority then failed
\* stops there (no IDL step, no copy, no further command) on its way to the
\* exit with status 1, with the program on-chain and its upgrade authority
\* still the deployer key.
C10_DeployerKeepsAuthority ==
    (/\ sub = "Deploy" /\ Len(log) >= 3
     /\ log[2] = Step("deploy", Deployer, 0, "ok")
     /\ log[3] = Step("set-authority", Deployer, 0, "fail")) =>
        /\ Len(log) = 3
        /\ pc \in {"ret_err", "exit307"}
        /\ Exited => ExitStatus(pc) # 0
        /\ chain = [exists |-> TRUE, auth |-> "deployer", code |-> run]
        /\ artifacts = start.artifacts /\ buffers = start.buffers

C10_Witness ==
    /\ sub = "Deploy" /\ pc = "exit307" /\ Len(log) = 3
    /\ log[3] = Step("set-authority", Deployer, 0, "fail")
    /\ chain.auth = "deployer"


\* C11: the temporary buffer keypair file exists only between its creation
\* and the return of main_with_result: at every process exit of every run it
\* is gone, whether the run ended in Done or failed at any later step.
C11_TempFileRemoved ==
    /\ Exited => ~tmpFile
    /\ tmpFile =>
        /\ sub = "Upgrade" /\ bufferKey # 0
        /\ pc \in {"u_write", "u_setbufauth", "u_switch", "u_probe2", "u_idl", "u_copy"}

C11_Witness ==
    /\ sub = "Upgrade" /\ pc = "exit307" /\ ~tmpFile
    /\ Succeeded("write-buffer") /\ Len(log) = 4
    /\ log[4] = Step("deploy-from-buffer", UpgradeAuthorityKeypair, bufferKey, "fail")

\* C12: in an Upgrade run deploy-from-buffer is signed with the credential
\* read from UPGRADE_AUTHORITY_KEYPAIR, never with the deployer's, and
\* write-buffer, set-buffer-authority and IDL write-buffer are signed with
\* the deployer's, never with the upgrade authority's; deploy-from-buffer is
\* invoked only right after set-buffer-authority succeeded on the same
\* buffer, which then belongs to the network's upgrade authority.
C12_CredentialSeparation ==
    /\ \A i \in DOMAIN log :
        /\ log[i].cmd = "deploy-from-buffer" =>
            /\ envSet
            /\ log[i].signer = UpgradeAuthorityKeypair /\ log[i].signer # Deployer
            /\ i > 1
            /\ log[i - 1] = Step("set-buffer-authority", Deployer, log[i].buf, "ok")
        /\ log[i].cmd \in {"write-buffer", "set-buffer-authority", "idl-write-buffer"} =>
            log[i].signer = Deployer /\ log[i].signer # UpgradeAuthorityKeypair
    /\ pc = "u_switch" => buffers[bufferKey] = "upgrade_authority"

C12_Witness ==
    /\ sub = "Upgrade" /\ Succeeded("deploy-from-buffer") /\ Invoked("idl-write-buffer")

Front(l) == SubSeq(l, 1, Len(l) - 1)

\* C13: the artifact copy is the last step of a run and is invoked only
\* after every step before it succeeded (Deploy: deploy, set-authority, the
\* second probe and both IDL steps when the capability is present; Upgrade:
\* write-buffer, set-buffer-authority, deploy-from-buffer, the second probe
\* and IDL write-buffer when the capability is present); as long as the
\* copy has not been invoked the artifact tree is as it was at the start.
C13_CopyOnlyAfterSuccess ==
    /\ \A i \in DOMAIN log :
        log[i].cmd = "copy" =>
            /\ i = Len(log)
            /\ Front(log) = Front(IF sub = "Deploy" THEN DeployHappyLog(anchor)
                                  ELSE UpgradeHappyLog(anchor, bufferKey))
    /\ ~Invoked("copy") => artifacts = start.artifacts

C13_Witness ==
    /\ sub = "Deploy" /\ anchor /\ Done
    /\ Succeeded("copy") /\ artifacts # start.artifacts


IdlCommands == {"idl-init", "idl-set-authority", "idl-write-buffer", "idl-set-buffer"}

\* C14: in a Deploy run IDL init is invoked only with the capability flag
\* set and only as the step after set-authority succeeded and the second
\* probe returned; IDL set-authority only as the step after IDL init
\* succeeded; without the flag neither is invoked, the published IDL is
\* untouched and the step after the second probe is the artifact copy.
C14_DeployIdlOptional ==
    sub = "Deploy" =>
        /\ \A i \in DOMAIN log :
            /\ log[i].cmd \in IdlCommands => anchor /\ i \in {5, 6}
            /\ log[i].cmd = "idl-init" =>
                /\ i = 5
                /\ log[3] = Step("set-authority", Deployer, 0, "ok")
            /\ log[i].cmd = "idl-set-authority" =>
                /\ i = 6
                /\ log[5] = Step("idl-init", Deployer, 0, "ok")
        /\ ~anchor =>
            /\ idl = start.idl
            /\ pc \notin {"d_idl_init", "d_idl_setauth"}
            /\ Len(log) >= 5 => log[5].cmd = "copy"
            /\ (Len(log) = 4 /\ error = "none") => pc = "d_copy"
        /\ (anchor /\ Len(log) >= 5) => log[5].cmd = "idl-init"

C14_Witness ==
    /\ sub = "Deploy" /\ anchor /\ Succeeded("idl-set-authority")
    /\ idl = [exists |-> TRUE, code |-> run, auth |-> "upgrade_authority", staged |-> 0]

\* C15: in an Upgrade run the only IDL command ever invoked is IDL
\* write-buffer, at most once, as the step after deploy-from-buffer succeeded
\* and the second probe returned, and only with the interface-description
\* tool present; with the tool present a run that gets past the second
\* probe invokes it; no finalize command is invoked, so the published IDL
\* (existence, content, authority) is what it was at the start of the run;
\* without the tool the IDL state is untouched altogether.
C15_UpgradeIdlStagedOnly ==
    sub = "Upgrade" =>
        /\ \A i \in DOMAIN log :
            log[i].cmd \in IdlCommands =>
                /\ log[i].cmd = "idl-write-buffer"
                /\ anchor /\ i = 6
                /\ log[4] = Step("deploy-from-buffer", UpgradeAuthorityKeypair, bufferKey, "ok")
        /\ (anchor /\ Len(log) >= 6) => log[6].cmd = "idl-write-buffer"
        /\ [idl EXCEPT !.staged = start.idl.staged] = start.idl
        /\ ~anchor => idl = start.idl

C15_Witness ==
    /\ sub = "Upgrade" /\ anchor /\ Succeeded("idl-write-buffer")
    /\ idl = [PublishedIdl EXCEPT !.staged = run]


BeforeGuardOrFailed == pc \in {"u_env", "u_init", "u_artifacts", "ret_err", "exit307"}

\* C16 as stated: once a run for a version has reached Done, every later
\* Upgrade run for that version invokes no external command and fails with
\* the duplicate-version error.
C16_AsStated ==
    (sub = "Upgrade" /\ version \in start.done) =>
        /\ log = <<>>
        /\ BeforeGuardOrFailed
        /\ pc \in {"ret_err", "exit307"} => error = "DuplicateVersion"

\* the state part of C16 (amended)
C16_Guard ==
    /\ \A v \in start.done : ArtifactPathsExist(artifacts, v)
    /\ (sub = "Upgrade" /\ version \in start.done) =>
        /\ log = <<>> /\ bufferKey = 0 /\ ~tmpFile
        /\ BeforeGuardOrFailed
        /\ Exited => ExitStatus(pc) # 0
        /\ pc \in {"ret_err", "exit307"} =>
            /\ error \in {"MissingCredential", "WorkspaceInit", "DuplicateVersion"}
            /\ error = "MissingCredential" <=> ~envSet
        /\ pc \in {"u_init", "u_artifacts"} => envSet
    /\ (sub = "Upgrade" /\ ~Invoked("copy")) => artifacts = start.artifacts
    /\ (sub = "Upgrade" /\ ~ArtifactPathsExist(start.artifacts, version)) =>
        error # "DuplicateVersion"

\* the cross-run part of C16: after an Upgrade run that failed before its
\* copy, the guard finds for the same version what it found, or would have
\* found, in the failed run
C16_Rerun ==
    (/\ run' = run + 1
     /\ sub = "Upgrade" /\ Failed /\ ~Invoked("copy")
     /\ sub' = "Upgrade" /\ version' = version) =>
        ArtifactPathsExist(start'.artifacts, version')
            = ArtifactPathsExist(start.artifacts, version)

\* C16 (amended): once a Deploy or Upgrade run for a version has reached
\* Done, that version's artifacts exist from then on and every later Upgrade
\* run for it fails, exiting non-zero, without invoking any external command
\* or creating the temporary file: with the duplicate-version error when
\* the credential is set and the workspace resolves, with the
\* missing-credential or workspace error of the earlier check otherwise.
\* Conversely an Upgrade run that failed before its artifact copy leaves the
\* artifact tree as it found it, so the guard of a re-run with the same
\* version decides as it did before and never blocks a version whose
\* artifacts were absent.
C16_DuplicateGuardAcrossRuns == [](C16_Guard) /\ [][C16_Rerun]_vars

C16_Witness ==
    /\ sub = "Upgrade" /\ version \in start.done /\ envSet
    /\ pc = "exit307" /\ error = "DuplicateVersion"


\* C17 as stated: after a Deploy run that deployed and then failed, every
\* later Deploy run ends in AlreadyDeployed with exit status 0 after the
\* probe reported the program.
C17_AsStated ==
    (sub = "Deploy" /\ start.partial /\ Exited) =>
        /\ AlreadyDeployed /\ ExitStatus(pc) = 0
        /\ log = <<Step("probe", NoSigner, 0, "true")>>

\* C17 (amended): after a Deploy run in which deploy succeeded and a later
\* step failed, the program stays on-chain and no later Deploy run invokes
\* deploy, set-authority, IDL init, IDL set-authority or the artifact copy
\* or changes anything on-chain or in the artifact tree; such a run ends in
\* AlreadyDeployed with exit status 0 whenever its workspace resolves and its
\* probe can be invoked (the probe then reports the program), and exits
\* non-zero with that error otherwise.  After a set-authority failure the
\* upgrade authority is the deployer key in every later run.
C17_RerunNeverRepairs ==
    /\ start.partial => chain.exists
    /\ start.stuck => start.partial /\ chain.auth = "deployer"
    /\ (sub = "Deploy" /\ start.partial) =>
        /\ Len(log) <= 1
        /\ \A i \in DOMAIN log : log[i].cmd = "probe" /\ log[i].res \in {"true", "err"}
        /\ WorldUntouched /\ buffers = start.buffers
        /\ (log # <<>> /\ log[1].res = "true") => AlreadyDeployed
        /\ Exited =>
            \/ AlreadyDeployed /\ ExitStatus(pc) = 0 /\ error = "none"
            \/ pc = "exit307" /\ error \in {"WorkspaceInit", "Probe"}

C17_Witness ==
    /\ sub = "Deploy" /\ start.stuck /\ AlreadyDeployed
    /\ chain.auth = "deployer"


\* C18: each workflow probes a second time right after its last mandatory
\* on-chain mutation succeeded (step 4 of Deploy, after set-authority; step
\* 5 of Upgrade, after deploy-from-buffer) and before any IDL step or copy;
\* where the run goes next does not depend on whether that probe reports
\* true or false; if the probe itself fails the run stops there and exits
\* non-zero with the mutation in effect, the IDL state and the artifact
\* tree untouched.
C18_PostMutationProbe ==
    /\ sub = "Deploy" =>
        /\ \A i \in DOMAIN log :
            (log[i].cmd = "probe" /\ i > 1) =>
                i = 4 /\ log[3] = Step("set-authority", Deployer, 0, "ok")
        /\ Len(log) >= 4 => log[4].cmd = "probe"
        /\ pc = "d_probe2" =>
            \A res \in {"true", "false"} :
                DeployAfterSecondProbe(res, anchor)
                    = IF anchor THEN "d_idl_init" ELSE "d_copy"
        /\ (Len(log) >= 4 /\ log[4].res = "err") =>
            /\ Len(log) = 4
            /\ pc \in {"ret_err", "exit307"} /\ error = "Probe"
            /\ chain = [exists |-> TRUE, auth |-> "upgrade_authority", code |-> run]
            /\ idl = start.idl /\ artifacts = start.artifacts
    /\ sub = "Upgrade" =>
        /\ \A i \in DOMAIN log :
            (log[i].cmd = "probe" /\ i > 1) =>
                /\ i = 5
                /\ log[4] = Step("deploy-from-buffer", UpgradeAuthorityKeypair,
                                 bufferKey, "ok")
        /\ Len(log) >= 5 => log[5].cmd = "probe"
        /\ pc = "u_probe2" =>
            \A res \in {"true", "false"} :
                UpgradeAfterSecondProbe(res, anchor)
                    = IF anchor THEN "u_idl" ELSE "u_copy"
        /\ (Len(log) >= 5 /\ log[5].res = "err") =>
            /\ Len(log) = 5
            /\ pc \in {"ret_err", "exit307"} /\ error = "Probe"
            /\ chain.code = run
            /\ idl = start.idl /\ artifacts = start.artifacts
    /\ Exited /\ error = "Probe" => ExitStatus(pc) # 0

C18_Witness ==
    /\ sub = "Upgrade" /\ pc = "exit307" /\ Len(log) = 5
    /\ log[5] = Step("probe", NoSigner, 0, "err")
    /\ chain.code = run /\ start.chain.code # run


BufferCommands == {"write-buffer", "set-buffer-authority", "deploy-from-buffer"}

\* the state part of C19
C19_OneKey ==
    /\ \A i \in DOMAIN log :
        log[i].cmd \in BufferCommands =>
            log[i].buf = bufferKey /\ bufferKey \in BufferKeys
    /\ bufferKey # 0 =>
        /\ sub = "Upgrade" /\ envSet
        /\ ~ArtifactPathsExist(start.artifacts, version)
        /\ log # <<>> /\ log[1] = Step("probe", NoSigner, 0, "true")
    /\ tmpFile => bufferKey # 0

\* the step part of C19: within a run the key is generated at most once,
\* by the keypair step
C19_GeneratedOnce ==
    /\ (run' = run /\ bufferKey # 0) => bufferKey' = bufferKey
    /\ (run' = run /\ bufferKey' # bufferKey) => pc = "u_keypair"

\* C19: the buffer passed to write-buffer (through the temporary keypair
\* file), to set-buffer-authority and to deploy-from-buffer is the one
\* staging key of the run; the key is generated once per run, by the step
\* that follows the passed preconditions, and never in a run that fails a
\* precondition.
C19_BufferIdentity == [](C19_OneKey) /\ [][C19_GeneratedOnce]_vars

C19_Witness ==
    /\ sub = "Upgrade" /\ Succeeded("deploy-from-buffer")
    /\ bufferKey = MaxKeys
    /\ log[2].buf = bufferKey /\ log[3].buf = bufferKey /\ log[4].buf = bufferKey

====
